---------------------------- MODULE Spec2Model ----------------------------
(***************************************************************************)
(* A model of generate_logs.py: the synthetic log generator that writes    *)
(* Apache access, Apache error, firewall and Windows event lines to four   *)
(* files.                                                                  *)
(*                                                                         *)
(* Text is modelled as a sequence of one-character strings, so that        *)
(* formatting (str, strftime, f-strings, join) and parsing (split, int)    *)
(* are computed character by character.  The pseudo-random source is       *)
(* modelled by its outcomes: every generator is a function of a record of  *)
(* draws, and the actions choose the draws.  A call of random.random() is  *)
(* a number p in 0..Res-1 standing for p/Res; randint and choice map a     *)
(* natural number into their range.  Time is kept to the second.           *)
(***************************************************************************)
EXTENDS Integers, Sequences, FiniteSets, TLC

VARIABLES
    op,        \* the function applied in this behaviour ("none" before)
    rnd,       \* the draws (and the clock reading) the call consumed
    ret,       \* what the call returned: [exc, val]
    pc,        \* main: position in main()
    num,       \* main: the configured counts NUM_*_LOGS, by kind
    fs,        \* main: the file system, by destination: [exists, data]
    opened,    \* main: the destinations open() was called on, in order
    pending,   \* main: lines written to the open destination so far
    printed    \* main: whether the success message was printed

vars == <<op, rnd, ret, pc, num, fs, opened, pending, printed>>

---------------------------------------------------------------------------
(* Bounds of the model *)

\* random.random() is modelled at a resolution of 1/Res
Res == 100
\* the largest configured count NUM_*_LOGS explored by main
MaxCount == 2

---------------------------------------------------------------------------
(* CONFIGURATION CONSTANTS *)

DAYS_BACK == 7

HIGH_FREQ_IPS == <<
    <<"1", "9", "2", ".", "1", "6", "8", ".", "1", ".", "1">>,
    <<"1", "0", ".", "0", ".", "0", ".", "5">>,
    <<"1", "7", "3", ".", "1", "9", "4", ".", "2", "2", "2", ".", "1", "1", "3">>,
    <<"8", ".", "8", ".", "8", ".", "8">> >>

\* CHANCE_HIGH_FREQ = 0.6, in percent
CHANCE_HIGH_FREQ == 60

GEOGRAPHIC_LOCATIONS == <<
    <<"U", "n", "i", "t", "e", "d", " ", "S", "t", "a", "t", "e", "s", ",", " ", "N", "e", "w", " ", "Y", "o", "r", "k">>,
    <<"G", "e", "r", "m", "a", "n", "y", ",", " ", "B", "e", "r", "l", "i", "n">>,
    <<"F", "r", "a", "n", "c", "e", ",", " ", "P", "a", "r", "i", "s">>,
    <<"I", "t", "a", "l", "y", ",", " ", "R", "o", "m", "e">>,
    <<"S", "p", "a", "i", "n", ",", " ", "M", "a", "d", "r", "i", "d">>,
    <<"C", "a", "n", "a", "d", "a", ",", " ", "T", "o", "r", "o", "n", "t", "o">>,
    <<"B", "r", "a", "z", "i", "l", ",", " ", "S", "Ã", "£", "o", " ", "P", "a", "u", "l", "o">>,
    <<"I", "n", "d", "i", "a", ",", " ", "M", "u", "m", "b", "a", "i">>,
    <<"A", "u", "s", "t", "r", "a", "l", "i", "a", ",", " ", "S", "y", "d", "n", "e", "y">> >>

HTTP_METHODS == << <<"G", "E", "T">>, <<"P", "O", "S", "T">>, <<"P", "U", "T">>, <<"D", "E", "L", "E", "T", "E">> >>

\* the dict's items in insertion order: <<code, percentage>>
HTTP_STATUS_CODES_DISTRIBUTION == << <<200, 80>>, <<404, 10>>, <<500, 5>> >>

OTHER_CODES == <<302, 401, 403, 501>>

ERROR_SEVERITIES == << <<"I", "N", "F", "O">>, <<"W", "A", "R", "N", "I", "N", "G">>, <<"E", "R", "R", "O", "R">>, <<"C", "R", "I", "T", "I", "C", "A", "L">> >>

\* a variant: a code that messages_map does not have
WINDOWS_EVENT_IDS_with_4688 == <<4624, 4625, 4634, 4688>>

WINDOWS_EVENT_IDS == <<4624, 4625, 4634, 4672>>

FAKE_USERNAMES == <<
    <<"a", "d", "m", "i", "n", "i", "s", "t", "r", "a", "t", "o", "r">>,
    <<"j", "s", "m", "i", "t", "h">>,
    <<"p", "t", "a", "y", "l", "o", "r">>,
    <<"m", "n", "g", "u", "y", "e", "n">>,
    <<"v", ".", "r", "o", "s", "s", "i">>,
    <<"d", ".", "b", "r", "o", "w", "n">>,
    <<"a", ".", "g", "a", "r", "c", "i", "a">> >>

INCIDENT_IP == <<"9", ".", "9", ".", "9", ".", "9">>

\* the endpoint list of generate_apache_access_log
ENDPOINTS == <<
    <<"/", "a", "p", "i", "/", "v", "1", "/", "u", "s", "e", "r", "s">>, <<"/", "a", "p", "i", "/", "v", "1", "/", "o", "r", "d", "e", "r", "s">>, <<"/", "h", "o", "m", "e">>, <<"/", "a", "b", "o", "u", "t">>,
    <<"/", "s", "t", "a", "t", "i", "c", "/", "c", "s", "s", "/", "s", "t", "y", "l", "e", "s", ".", "c", "s", "s">>, <<"/", "s", "t", "a", "t", "i", "c", "/", "j", "s", "/", "a", "p", "p", ".", "j", "s">>, <<"/", "l", "o", "g", "i", "n">>, <<"/", "l", "o", "g", "o", "u", "t">> >>

\* the message list of generate_apache_error_log
ERROR_MESSAGES == <<
    <<"F", "i", "l", "e", " ", "n", "o", "t", " ", "f", "o", "u", "n", "d">>,
    <<"P", "e", "r", "m", "i", "s", "s", "i", "o", "n", " ", "d", "e", "n", "i", "e", "d">>,
    <<"D", "a", "t", "a", "b", "a", "s", "e", " ", "c", "o", "n", "n", "e", "c", "t", "i", "o", "n", " ", "f", "a", "i", "l", "e", "d">>,
    <<"S", "y", "n", "t", "a", "x", " ", "e", "r", "r", "o", "r", " ", "i", "n", " ", "c", "o", "n", "f", "i", "g", "u", "r", "a", "t", "i", "o", "n", " ", "f", "i", "l", "e">>,
    <<"T", "i", "m", "e", "o", "u", "t", " ", "w", "h", "i", "l", "e", " ", "r", "e", "a", "d", "i", "n", "g", " ", "d", "a", "t", "a">>,
    <<"I", "n", "v", "a", "l", "i", "d", " ", "r", "e", "q", "u", "e", "s", "t", " ", "p", "a", "y", "l", "o", "a", "d">> >>

\* the action list of generate_firewall_log
FIREWALL_ACTIONS == << <<"A", "L", "L", "O", "W">>, <<"D", "R", "O", "P">>, <<"R", "E", "J", "E", "C", "T">>, <<"A", "L", "E", "R", "T">> >>

\* a variant: the messages of 4624 and 4625 exchanged
messages_map_exchanged == <<
    <<4624, <<"A", "n", " ", "a", "c", "c", "o", "u", "n", "t", " ", "f", "a", "i", "l", "e", "d", " ", "t", "o", " ", "l", "o", "g", " ", "o", "n">>>>,
    <<4625, <<"A", "n", " ", "a", "c", "c", "o", "u", "n", "t", " ", "w", "a", "s", " ", "s", "u", "c", "c", "e", "s", "s", "f", "u", "l", "l", "y", " ", "l", "o", "g", "g", "e", "d", " ", "o", "n">>>>,
    <<4634, <<"A", "n", " ", "a", "c", "c", "o", "u", "n", "t", " ", "w", "a", "s", " ", "l", "o", "g", "g", "e", "d", " ", "o", "f", "f">>>>,
    <<4672, <<"S", "p", "e", "c", "i", "a", "l", " ", "p", "r", "i", "v", "i", "l", "e", "g", "e", "s", " ", "a", "s", "s", "i", "g", "n", "e", "d", " ", "t", "o", " ", "n", "e", "w", " ", "l", "o", "g", "o", "n">>>> >>

\* messages_map of generate_windows_log: <<key, value>> pairs
messages_map == <<
    <<4624, <<"A", "n", " ", "a", "c", "c", "o", "u", "n", "t", " ", "w", "a", "s", " ", "s", "u", "c", "c", "e", "s", "s", "f", "u", "l", "l", "y", " ", "l", "o", "g", "g", "e", "d", " ", "o", "n">>>>,
    <<4625, <<"A", "n", " ", "a", "c", "c", "o", "u", "n", "t", " ", "f", "a", "i", "l", "e", "d", " ", "t", "o", " ", "l", "o", "g", " ", "o", "n">>>>,
    <<4634, <<"A", "n", " ", "a", "c", "c", "o", "u", "n", "t", " ", "w", "a", "s", " ", "l", "o", "g", "g", "e", "d", " ", "o", "f", "f">>>>,
    <<4672, <<"S", "p", "e", "c", "i", "a", "l", " ", "p", "r", "i", "v", "i", "l", "e", "g", "e", "s", " ", "a", "s", "s", "i", "g", "n", "e", "d", " ", "t", "o", " ", "n", "e", "w", " ", "l", "o", "g", "o", "n">>>> >>

\* the four destinations of main, in the order main writes them
DESTINATIONS == <<"apache_access.txt", "apache_error.txt",
                  "firewall_logs.txt", "windows_logs.txt">>

\* the kinds of line: 1 access, 2 error, 3 firewall, 4 windows
Kinds == DOMAIN DESTINATIONS

\* a destination that does not exist
NoFile == [exists |-> FALSE, data |-> <<>>]

---------------------------------------------------------------------------
(* Text: str, int, join, split *)

Digits == {"0", "1", "2", "3", "4", "5", "6", "7", "8", "9"}
DigitChar == <<"0", "1", "2", "3", "4", "5", "6", "7", "8", "9">>

\* str(n) for an integer n >= 0
RECURSIVE str(_)
str(n) == IF n < 10 THEN <<DigitChar[n + 1]>>
          ELSE str(n \div 10) \o <<DigitChar[(n % 10) + 1]>>

\* the %02d of strftime's %d, %H, %M, %S and %m
pad2(n) == IF n < 10 THEN <<"0">> \o str(n) ELSE str(n)

DigitValue(c) == CHOOSE k \in 0..9 : DigitChar[k + 1] = c

\* whether int(s) succeeds on a string of decimal digits (no sign, no blanks)
is_int(s) == Len(s) > 0 /\ \A i \in 1..Len(s) : s[i] \in Digits

\* int(s)
RECURSIVE int(_)
int(s) == IF Len(s) = 1 THEN DigitValue(s[1])
          ELSE 10 * int(SubSeq(s, 1, Len(s) - 1)) + DigitValue(s[Len(s)])

\* sep.join(parts)
RECURSIVE join(_, _)
join(sep, parts) ==
    IF Len(parts) = 0 THEN <<>>
    ELSE IF Len(parts) = 1 THEN parts[1]
    ELSE parts[1] \o sep \o join(sep, Tail(parts))

\* whether sep occurs in s at position i
at(s, i, sep) ==
    /\ i >= 1
    /\ i + Len(sep) - 1 <= Len(s)
    /\ SubSeq(s, i, i + Len(sep) - 1) = sep

\* s.find(sep, i): the first position >= i where sep occurs, 0 when none
find(s, i, sep) ==
    LET hits == {j \in i..(Len(s) - Len(sep) + 1) : at(s, j, sep)}
    IN  IF hits = {} THEN 0
        ELSE CHOOSE j \in hits : \A k \in hits : j <= k

\* s.split(sep): the list of the parts of s between the occurrences of sep
RECURSIVE split(_, _)
split(s, sep) ==
    LET j == find(s, 1, sep)
    IN  IF j = 0 THEN <<s>>
        ELSE <<SubSeq(s, 1, j - 1)>> \o split(SubSeq(s, j + Len(sep), Len(s)), sep)

---------------------------------------------------------------------------
(* The random source *)

\* random.random() < percent/100, for the outcome p/Res
below(p, percent) == p * 100 < percent * Res

\* random.randint(a, b), for the outcome u
randint(a, b, u) == a + (u % (b - a + 1))

\* random.choice(seq), for the outcome u; IndexError on an empty sequence
choice_ok(seq) == Len(seq) > 0
choice(seq, u) == seq[1 + (u % Len(seq))]

---------------------------------------------------------------------------
(* datetime: the proleptic Gregorian calendar of the datetime module, to   *)
(* the second.  A datetime is [year, month, day, hour, minute, second].    *)

DAYS_IN_MONTH == <<31, 28, 31, 30, 31, 30, 31, 31, 30, 31, 30, 31>>
DAYS_BEFORE_MONTH == <<0, 31, 59, 90, 120, 151, 181, 212, 243, 273, 304, 334>>

is_leap(y) == y % 4 = 0 /\ (y % 100 # 0 \/ y % 400 = 0)

days_in_month(y, m) == IF m = 2 /\ is_leap(y) THEN 29 ELSE DAYS_IN_MONTH[m]

days_before_year(y) ==
    LET y1 == y - 1
    IN  y1 * 365 + (y1 \div 4) - (y1 \div 100) + (y1 \div 400)

days_before_month(y, m) ==
    DAYS_BEFORE_MONTH[m] + (IF m > 2 /\ is_leap(y) THEN 1 ELSE 0)

\* date.toordinal(): 1 for 0001-01-01
ymd2ord(y, m, d) == days_before_year(y) + days_before_month(y, m) + d

\* date.fromordinal(n), as <<year, month, day>>
ord2ymd(ordinal) ==
    LET n0   == ordinal - 1
        n400 == n0 \div 146097
        r400 == n0 % 146097
        n100 == r400 \div 36524
        r100 == r400 % 36524
        n4   == r100 \div 1461
        r4   == r100 % 1461
        n1   == r4 \div 365
        n    == r4 % 365
        year == n400 * 400 + 1 + n100 * 100 + n4 * 4 + n1
        leapyear == n1 = 3 /\ (n4 # 24 \/ n100 = 3)
        month0 == (n + 50) \div 32
        preceding0 == DAYS_BEFORE_MONTH[month0]
                        + (IF month0 > 2 /\ leapyear THEN 1 ELSE 0)
        month == IF preceding0 > n THEN month0 - 1 ELSE month0
        preceding ==
            IF preceding0 > n
            THEN preceding0 - (DAYS_IN_MONTH[month]
                                + (IF month = 2 /\ leapyear THEN 1 ELSE 0))
            ELSE preceding0
    IN  IF n1 = 4 \/ n100 = 4 THEN <<year - 1, 12, 31>>
        ELSE <<year, month, n - preceding + 1>>

\* whether datetime.datetime(y, m, d, H, M, S) is accepted (else ValueError)
datetime_ok(y, m, d, H, M, S) ==
    /\ y \in 1..9999
    /\ m \in 1..12
    /\ d >= 1 /\ d <= days_in_month(y, m)
    /\ H \in 0..23
    /\ M \in 0..59
    /\ S \in 0..59

datetime(y, m, d, H, M, S) ==
    [year |-> y, month |-> m, day |-> d, hour |-> H, minute |-> M, second |-> S]

\* a timedelta is [days, seconds] with 0 <= seconds < 86400, as Python
\* normalises it
timedelta(days, seconds) ==
    [days |-> days + (seconds \div 86400), seconds |-> seconds % 86400]

second_of_day(dt) == dt.hour * 3600 + dt.minute * 60 + dt.second

\* the datetime on day `ordinal`, s seconds after midnight
combine(ordinal, s) ==
    LET ymd == ord2ymd(ordinal)
    IN  datetime(ymd[1], ymd[2], ymd[3], s \div 3600, (s % 3600) \div 60, s % 60)

\* dt + td (dt - td is dt + (-td))
datetime_add(dt, td) ==
    LET s == second_of_day(dt) + td.seconds
    IN  combine(ymd2ord(dt.year, dt.month, dt.day) + td.days + (s \div 86400),
                s % 86400)

\* a - b, a timedelta
datetime_sub(a, b) ==
    timedelta(ymd2ord(a.year, a.month, a.day) - ymd2ord(b.year, b.month, b.day),
              second_of_day(a) - second_of_day(b))

\* td * (p / Res), cut to the second
timedelta_mul(td, p) ==
    timedelta(0, ((td.days * 86400 + td.seconds) * p) \div Res)

\* a <= b on datetimes
datetime_le(a, b) ==
    LET oa == ymd2ord(a.year, a.month, a.day)
        ob == ymd2ord(b.year, b.month, b.day)
    IN  oa < ob \/ (oa = ob /\ second_of_day(a) <= second_of_day(b))

\* dt.weekday(): Monday is 0
weekday(dt) == (ymd2ord(dt.year, dt.month, dt.day) + 6) % 7

DAY_NAMES == << <<"M", "o", "n">>, <<"T", "u", "e">>, <<"W", "e", "d">>, <<"T", "h", "u">>, <<"F", "r", "i">>, <<"S", "a", "t">>, <<"S", "u", "n">> >>
MONTH_NAMES == << <<"J", "a", "n">>, <<"F", "e", "b">>, <<"M", "a", "r">>, <<"A", "p", "r">>, <<"M", "a", "y">>, <<"J", "u", "n">>,
                  <<"J", "u", "l">>, <<"A", "u", "g">>, <<"S", "e", "p">>, <<"O", "c", "t">>, <<"N", "o", "v">>, <<"D", "e", "c">> >>

\* one strftime directive (C locale)
directive(dt, c) ==
    CASE c = "a" -> DAY_NAMES[weekday(dt) + 1]
      [] c = "b" -> MONTH_NAMES[dt.month]
      [] c = "d" -> pad2(dt.day)
      [] c = "m" -> pad2(dt.month)
      [] c = "Y" -> str(dt.year)
      [] c = "H" -> pad2(dt.hour)
      [] c = "M" -> pad2(dt.minute)
      [] c = "S" -> pad2(dt.second)
      [] OTHER   -> <<"%", c>>

\* dt.strftime(fmt)
RECURSIVE strftime(_, _)
strftime(dt, fmt) ==
    IF Len(fmt) = 0 THEN <<>>
    ELSE IF fmt[1] = "%" /\ Len(fmt) >= 2
         THEN directive(dt, fmt[2]) \o strftime(dt, SubSeq(fmt, 3, Len(fmt)))
         ELSE <<fmt[1]>> \o strftime(dt, Tail(fmt))

---------------------------------------------------------------------------
(* The generator functions.  Each takes the record d of the outcomes of    *)
(* its random draws (and d.now, the clock reading) and returns             *)
(* [exc, val]: exc is "" and val the result, or exc names the exception    *)
(* raised.                                                                 *)

OK(v) == [exc |-> "", val |-> v]
Raise(e) == [exc |-> e, val |-> <<>>]

\* status_code = None
None == -1

get_random_datetime(d) ==
    LET now == d.now
        start_date == datetime_add(now, timedelta(-DAYS_BACK, 0))
        random_date ==
            datetime_add(start_date,
                         timedelta_mul(datetime_sub(now, start_date), d.date))
        hour == IF below(d.day, 70) THEN randint(8, 19, d.hour)
                ELSE IF below(d.half, 50) THEN randint(20, 23, d.hour)
                ELSE randint(0, 7, d.hour)
        minute == randint(0, 59, d.minute)
        second == randint(0, 59, d.second)
    IN  IF datetime_ok(random_date.year, random_date.month, random_date.day,
                       hour, minute, second)
        THEN OK(datetime(random_date.year, random_date.month, random_date.day,
                         hour, minute, second))
        ELSE Raise("ValueError")

\* a variant: the octets drawn by randint(0, 255)
get_random_ip_any_octet(d) ==
    IF below(d.hot, CHANCE_HIGH_FREQ)
    THEN OK(choice(HIGH_FREQ_IPS, d.pool))
    ELSE LET octets == [i \in 1..4 |-> str(randint(0, 255, d.octets[i]))]
         IN  OK(join(<<".">>, octets))

get_random_ip(d) ==
    IF below(d.hot, CHANCE_HIGH_FREQ)
    THEN IF choice_ok(HIGH_FREQ_IPS) THEN OK(choice(HIGH_FREQ_IPS, d.pool))
         ELSE Raise("IndexError")
    ELSE LET octets == [i \in 1..4 |-> str(randint(1, 254, d.octets[i]))]
         IN  OK(join(<<".">>, octets))

get_random_location(d) ==
    IF choice_ok(GEOGRAPHIC_LOCATIONS) THEN OK(choice(GEOGRAPHIC_LOCATIONS, d.loc))
    ELSE Raise("IndexError")

\* the incident draw of generate_apache_access_log and generate_windows_log
incident_or_random_ip(d) ==
    IF below(d.incident, 15) THEN OK(INCIDENT_IP) ELSE get_random_ip(d)

\* a variant: dice < cumulative
RECURSIVE status_loop_strict(_, _, _)
status_loop_strict(items, cumulative, dice) ==
    IF Len(items) = 0 THEN None
    ELSE IF dice < cumulative + items[1][2] THEN items[1][1]
    ELSE status_loop_strict(Tail(items), cumulative + items[1][2], dice)

\* the for loop over HTTP_STATUS_CODES_DISTRIBUTION.items()
RECURSIVE status_loop(_, _, _)
status_loop(items, cumulative, dice) ==
    IF Len(items) = 0 THEN None
    ELSE LET code == items[1][1]
             perc == items[1][2]
         IN  IF dice <= cumulative + perc THEN code
             ELSE status_loop(Tail(items), cumulative + perc, dice)

\* the status code distribution: the die, the loop, the fallback choice
status_draw(d) ==
    LET dice == randint(1, 100, d.dice)
        status_code == status_loop(HTTP_STATUS_CODES_DISTRIBUTION, 0, dice)
    IN  IF status_code = None
        THEN IF choice_ok(OTHER_CODES) THEN OK(choice(OTHER_CODES, d.other))
             ELSE Raise("IndexError")
        ELSE OK(status_code)

\* a variant: the override without the test of the address
status_override_any_address(d, ip_address, status_code) ==
    IF below(d.override, 50) THEN 404 ELSE status_code

\* if ip_address == INCIDENT_IP: if random.random() < 0.5: status_code = 404
status_override(d, ip_address, status_code) ==
    IF ip_address = INCIDENT_IP /\ below(d.override, 50) THEN 404
    ELSE status_code

\* {status_code} in an f-string
format_status(status_code) ==
    IF status_code = None THEN <<"N", "o", "n", "e">> ELSE str(status_code)

\* a variant: split(",")
unpack_location_on_comma(location_str) ==
    LET parts == split(location_str, <<",">>)
    IN  IF Len(parts) = 2 THEN OK(parts) ELSE Raise("ValueError")

\* country, city = location_str.split(", ")
unpack_location(location_str) ==
    LET parts == split(location_str, <<",", " ">>)
    IN  IF Len(parts) = 2 THEN OK(parts) ELSE Raise("ValueError")

\* a variant: the city's closing quote left out
format_geo_unclosed(country, city) ==
    <<"g", "e", "o", "_", "c", "o", "u", "n", "t", "r", "y", "=", "\"">> \o country \o <<"\"", " ", "g", "e", "o", "_", "c", "i", "t", "y", "=", "\"">> \o city

\* the geo tags every line ends with
format_geo(country, city) ==
    <<"g", "e", "o", "_", "c", "o", "u", "n", "t", "r", "y", "=", "\"">> \o country \o <<"\"", " ", "g", "e", "o", "_", "c", "i", "t", "y", "=", "\"">> \o city \o <<"\"">>

format_access(ip_address, timestamp_str, method, endpoint, status_code, response_size, country, city) ==
    ip_address \o <<" ", "-", " ", "-", " ", "[">> \o timestamp_str \o <<"]", " ">>
        \o <<"\"">> \o method \o <<" ">> \o endpoint \o <<" ", "H", "T", "T", "P", "/", "1", ".", "1", "\"", " ">>
        \o format_status(status_code) \o <<" ">> \o str(response_size) \o <<" ">>
        \o format_geo(country, city)

generate_apache_access_log(d) ==
    LET dt == get_random_datetime(d)
        ip_address == incident_or_random_ip(d)
        status_code == status_draw(d)
        location_str == get_random_location(d)
    IN  IF dt.exc # "" THEN dt
        ELSE IF ip_address.exc # "" THEN ip_address
        ELSE IF ~choice_ok(HTTP_METHODS) \/ ~choice_ok(ENDPOINTS)
             THEN Raise("IndexError")
        ELSE IF status_code.exc # "" THEN status_code
        ELSE IF location_str.exc # "" THEN location_str
        ELSE LET parts == unpack_location(location_str.val)
             IN  IF parts.exc # "" THEN parts
                 ELSE OK(format_access(
                        ip_address.val,
                        strftime(dt.val, <<"%", "d", "/", "%", "b", "/", "%", "Y", ":", "%", "H", ":", "%", "M", ":", "%", "S", " ", "+", "0", "0", "0", "0">>),
                        choice(HTTP_METHODS, d.method),
                        choice(ENDPOINTS, d.endpoint),
                        status_override(d, ip_address.val, status_code.val),
                        randint(512, 524288, d.size),
                        parts.val[1], parts.val[2]))

format_error(timestamp_str, severity, ip_address, error_msg, country, city) ==
    <<"[">> \o timestamp_str \o <<"]", " ", "[">> \o severity \o <<"]", " ", "[", "c", "l", "i", "e", "n", "t", " ">>
        \o ip_address \o <<"]", " ">>
        \o error_msg \o <<" ">> \o format_geo(country, city)

generate_apache_error_log(d) ==
    LET dt == get_random_datetime(d)
        ip_address == get_random_ip(d)
        loc == get_random_location(d)
    IN  IF dt.exc # "" THEN dt
        ELSE IF ip_address.exc # "" THEN ip_address
        ELSE IF ~choice_ok(ERROR_SEVERITIES) \/ ~choice_ok(ERROR_MESSAGES)
             THEN Raise("IndexError")
        ELSE IF loc.exc # "" THEN loc
        ELSE LET parts == unpack_location(loc.val)
             IN  IF parts.exc # "" THEN parts
                 ELSE OK(format_error(
                        strftime(dt.val, <<"%", "a", " ", "%", "b", " ", "%", "d", " ", "%", "H", ":", "%", "M", ":", "%", "S", " ", "%", "Y">>),
                        choice(ERROR_SEVERITIES, d.severity),
                        ip_address.val,
                        choice(ERROR_MESSAGES, d.message),
                        parts.val[1], parts.val[2]))

format_firewall(timestamp_str, hostname, ip_address, action, country, city) ==
    timestamp_str \o <<" ">> \o hostname
        \o <<" ", "C", "E", "F", ":", "0", "|", "F", "a", "k", "e", "C", "o", "m", "p", "a", "n", "y", "|", "F", "i", "r", "e", "w", "a", "l", "l", "|", "1", ".", "0", "|", "1", "0", "0", "|", "T", "r", "a", "f", "f", "i", "c", "|", "I", "N", "F", "O", "|", " ">>
        \o <<"s", "r", "c", "=">> \o ip_address \o <<" ", "a", "c", "t", "=">> \o action \o <<" ">>
        \o format_geo(country, city)

generate_firewall_log(d) ==
    LET dt == get_random_datetime(d)
        ip_address == get_random_ip(d)
        loc == get_random_location(d)
    IN  IF dt.exc # "" THEN dt
        ELSE IF ip_address.exc # "" THEN ip_address
        ELSE IF ~choice_ok(FIREWALL_ACTIONS) THEN Raise("IndexError")
        ELSE IF loc.exc # "" THEN loc
        ELSE LET parts == unpack_location(loc.val)
             IN  IF parts.exc # "" THEN parts
                 ELSE OK(format_firewall(
                        strftime(dt.val, <<"%", "b", " ", "%", "d", " ", "%", "H", ":", "%", "M", ":", "%", "S">>),
                        <<"m", "y", "f", "i", "r", "e", "w", "a", "l", "l">>,
                        ip_address.val,
                        choice(FIREWALL_ACTIONS, d.action),
                        parts.val[1], parts.val[2]))

\* msg = messages_map[event_id]; KeyError when event_id is no key
lookup_message(event_id) ==
    LET hits == {i \in 1..Len(messages_map) : messages_map[i][1] = event_id}
    IN  IF hits = {} THEN Raise("KeyError")
        ELSE OK(messages_map[CHOOSE i \in hits : \A j \in hits : j <= i][2])

format_windows(timestamp_str, hostname, event_id, msg, ip_address, username, country, city) ==
    timestamp_str \o <<" ">> \o hostname \o <<" ", "S", "e", "c", "u", "r", "i", "t", "y", " ">>
        \o <<"I", "D", "=">> \o str(event_id) \o <<" ", "M", "S", "G", "=", "\"">> \o msg \o <<"\"", " ">>
        \o <<"[", "c", "l", "i", "e", "n", "t", " ">> \o ip_address \o <<"]", " ", "u", "s", "e", "r", "n", "a", "m", "e", "=", "\"">> \o username \o <<"\"", " ">>
        \o format_geo(country, city)

generate_windows_log(d) ==
    LET dt == get_random_datetime(d)
        loc == get_random_location(d)
        ip_address == incident_or_random_ip(d)
    IN  IF dt.exc # "" THEN dt
        ELSE IF ~choice_ok(WINDOWS_EVENT_IDS) THEN Raise("IndexError")
        ELSE LET event_id == choice(WINDOWS_EVENT_IDS, d.event)
                 msg == lookup_message(event_id)
             IN  IF msg.exc # "" THEN msg
                 ELSE IF loc.exc # "" THEN loc
                 ELSE LET parts == unpack_location(loc.val)
                      IN  IF parts.exc # "" THEN parts
                          ELSE IF ip_address.exc # "" THEN ip_address
                          ELSE IF ~choice_ok(FAKE_USERNAMES) THEN Raise("IndexError")
                          ELSE OK(format_windows(
                                 strftime(dt.val, <<"%", "Y", "-", "%", "m", "-", "%", "d", " ", "%", "H", ":", "%", "M", ":", "%", "S">>),
                                 <<"W", "I", "N", "H", "O", "S", "T">>,
                                 event_id, msg.val, ip_address.val,
                                 choice(FAKE_USERNAMES, d.user),
                                 parts.val[1], parts.val[2]))

---------------------------------------------------------------------------
(* The inputs: clock readings and outcomes of the random draws *)

\* datetime.datetime.now(): a mid-morning, a moment after midnight with a
\* leap day in the window, and the last second of a day with the turn of the
\* year in the window
NOWS == { datetime(2026, 11, 4, 10, 0, 0),
          datetime(2024, 3, 2, 0, 0, 5),
          datetime(2025, 1, 3, 23, 59, 59) }

\* outcomes of random.random() around the threshold percent/100
near(percent) ==
    LET t == (percent * Res) \div 100
    IN  {p \in {0, t - 1, t, Res - 1} : p \in 0..(Res - 1)}

\* outcomes of the random.random() of the date draw
DATE_DRAWS == {p \in 0..(Res - 1) : p % 9 = 0 \/ p = Res - 1}

\* outcomes for one octet: randint(1, 254) gives 1, 9, 254
OCTET_DRAWS == {0, 8, 253}

BaseDraws ==
    [now |-> datetime(2026, 11, 4, 10, 0, 0),
     date |-> 0, day |-> 0, half |-> 0, hour |-> 0, minute |-> 0, second |-> 0,
     incident |-> Res - 1, hot |-> 0, pool |-> 0, octets |-> <<0, 0, 0, 0>>,
     method |-> 0, endpoint |-> 0, dice |-> 0, other |-> 0, override |-> 0,
     size |-> 0, loc |-> 0, severity |-> 0, message |-> 0, action |-> 0,
     event |-> 0, user |-> 0]

\* the day/night draws: the second random.random() is drawn at night only
DAY_NIGHT_DRAWS ==
    { <<dy, hf>> \in near(70) \X near(50) : below(dy, 70) => hf = 0 }

\* the draws of get_random_datetime
TimeDraws(b) ==
    { [b EXCEPT !.now = n, !.date = p, !.day = dh[1], !.half = dh[2],
                !.hour = h, !.minute = m, !.second = s] :
        n \in NOWS, p \in DATE_DRAWS, dh \in DAY_NIGHT_DRAWS,
        h \in {0, 3, 7, 11}, m \in {0, 59}, s \in {0, 59} }

\* fewer of them, for the generators of lines
FewTimeDraws(b) ==
    { [b EXCEPT !.now = n, !.date = p, !.day = dh[1], !.half = dh[2],
                !.hour = h, !.minute = ms, !.second = ms] :
        n \in NOWS, p \in {0, Res \div 2, Res - 1},
        dh \in {<<0, 0>>, <<Res - 1, 0>>, <<Res - 1, Res - 1>>},
        h \in {0, 3}, ms \in {0, 59} }

\* the draws of get_random_ip: the pool index is drawn on a hit, the octets
\* on a miss
IpDraws(b) ==
    { [b EXCEPT !.hot = ht, !.pool = pl] :
        ht \in {p \in near(CHANCE_HIGH_FREQ) : below(p, CHANCE_HIGH_FREQ)},
        pl \in 0..(Len(HIGH_FREQ_IPS) - 1) }
    \cup
    { [b EXCEPT !.hot = ht, !.octets = oc] :
        ht \in {p \in near(CHANCE_HIGH_FREQ) : ~below(p, CHANCE_HIGH_FREQ)},
        oc \in OCTET_DRAWS \X OCTET_DRAWS \X OCTET_DRAWS \X OCTET_DRAWS }

\* fewer of them, for the generators of lines
FewIpDraws(b) ==
    { [b EXCEPT !.hot = 0, !.pool = pl] : pl \in 0..(Len(HIGH_FREQ_IPS) - 1) }
    \cup
    { [b EXCEPT !.hot = Res - 1, !.octets = oc] :
        oc \in {<<0, 0, 0, 0>>, <<8, 8, 8, 8>>, <<0, 8, 253, 99>>} }

\* with the incident draw before them: get_random_ip is called on a miss
IncidentDraws(b) ==
    { [b EXCEPT !.incident = i] : i \in {p \in near(15) : below(p, 15)} }
    \cup
    UNION { FewIpDraws([b EXCEPT !.incident = i]) :
            i \in {p \in near(15) : ~below(p, 15)} }

LocationDraws(b) == { [b EXCEPT !.loc = l] : l \in 0..(Len(GEOGRAPHIC_LOCATIONS) - 1) }

AccessDraws ==
    FewTimeDraws(BaseDraws)
    \cup { [BaseDraws EXCEPT !.dice = dc, !.other = o] : dc \in 0..99, o \in 0..3 }
    \cup UNION { { [b EXCEPT !.dice = dc, !.other = o, !.override = v] :
                     dc \in {0, 79, 80, 89, 90, 94, 95, 99}, o \in {0, 3},
                     v \in near(50) } : b \in IncidentDraws(BaseDraws) }
    \cup { [BaseDraws EXCEPT !.method = m, !.endpoint = e, !.size = s] :
             m \in 0..3, e \in 0..7, s \in {0, 523776} }
    \cup LocationDraws(BaseDraws)

ErrorDraws ==
    FewTimeDraws(BaseDraws)
    \cup UNION { { [b EXCEPT !.severity = s, !.message = m] :
                     s \in 0..3, m \in 0..5 } : b \in FewIpDraws(BaseDraws) }
    \cup LocationDraws(BaseDraws)

FirewallDraws ==
    FewTimeDraws(BaseDraws)
    \cup UNION { { [b EXCEPT !.action = a] : a \in 0..3 } :
                 b \in FewIpDraws(BaseDraws) }
    \cup LocationDraws(BaseDraws)

WindowsDraws ==
    FewTimeDraws(BaseDraws)
    \cup UNION { { [b EXCEPT !.event = e, !.user = u] : e \in 0..3, u \in 0..6 } :
                 b \in IncidentDraws(BaseDraws) }
    \cup UNION { LocationDraws([BaseDraws EXCEPT !.event = e]) : e \in 0..3 }

---------------------------------------------------------------------------
(* One call of a function: the state before is op = "none" *)

Idle == op = "none" /\ pc = "off"

main_vars == <<pc, num, fs, opened, pending, printed>>

CallGetRandomDatetime ==
    /\ Idle
    /\ \E d \in TimeDraws(BaseDraws) :
        /\ op' = "get_random_datetime"
        /\ rnd' = d
        /\ ret' = get_random_datetime(d)
    /\ UNCHANGED main_vars

CallGetRandomIp ==
    /\ Idle
    /\ \E d \in IpDraws(BaseDraws) :
        /\ op' = "get_random_ip"
        /\ rnd' = d
        /\ ret' = get_random_ip(d)
    /\ UNCHANGED main_vars

CallGetRandomLocation ==
    /\ Idle
    /\ \E d \in LocationDraws(BaseDraws) :
        /\ op' = "get_random_location"
        /\ rnd' = d
        /\ ret' = get_random_location(d)
    /\ UNCHANGED main_vars

CallGenerateApacheAccessLog ==
    /\ Idle
    /\ \E d \in AccessDraws :
        /\ op' = "generate_apache_access_log"
        /\ rnd' = d
        /\ ret' = generate_apache_access_log(d)
    /\ UNCHANGED main_vars

CallGenerateApacheErrorLog ==
    /\ Idle
    /\ \E d \in ErrorDraws :
        /\ op' = "generate_apache_error_log"
        /\ rnd' = d
        /\ ret' = generate_apache_error_log(d)
    /\ UNCHANGED main_vars

CallGenerateFirewallLog ==
    /\ Idle
    /\ \E d \in FirewallDraws :
        /\ op' = "generate_firewall_log"
        /\ rnd' = d
        /\ ret' = generate_firewall_log(d)
    /\ UNCHANGED main_vars

CallGenerateWindowsLog ==
    /\ Idle
    /\ \E d \in WindowsDraws :
        /\ op' = "generate_windows_log"
        /\ rnd' = d
        /\ ret' = generate_windows_log(d)
    /\ UNCHANGED main_vars

Init ==
    /\ op = "none"
    /\ rnd = BaseDraws
    /\ ret = OK(<<>>)
    /\ pc = "off"
    /\ num = [k \in Kinds |-> 0]
    /\ fs = [k \in Kinds |-> NoFile]
    /\ opened = <<>>
    /\ pending = 0
    /\ printed = FALSE

Next ==
    \/ CallGetRandomDatetime
    \/ CallGetRandomIp
    \/ CallGetRandomLocation
    \/ CallGenerateApacheAccessLog
    \/ CallGenerateApacheErrorLog
    \/ CallGenerateFirewallLog
    \/ CallGenerateWindowsLog

Spec == Init /\ [][Next]_vars

---------------------------------------------------------------------------
(* main(): four with-blocks in a fixed order, each opening its destination *)
(* for writing, writing NUM lines and closing it; then the messages.       *)
(* The kinds 1..4 are access, error, firewall, windows (DESTINATIONS).     *)
(* fs[k].data is the sequence of the strings written to destination k.     *)
(* An OSError of open, write or close leaves main through its with-block   *)
(* and ends the run.                                                       *)

\* what a destination may hold before the run
StaleFile == [exists |-> TRUE, data |-> << <<"s", "t", "a", "l", "e", " ", "e", "n", "t", "r", "y">> \o <<"\n">> >>]

\* the file systems main is started on: no destination exists, every one
\* holds old content, or some do
PRIOR_FS ==
    { [k \in Kinds |-> NoFile],
      [k \in Kinds |-> StaleFile],
      [k \in Kinds |-> IF k % 2 = 1 THEN StaleFile ELSE NoFile] }

\* the draws of the lines main writes
MainDraws == { BaseDraws }

\* the generator main calls in the with-block of kind k
generate(k, d) ==
    CASE k = 1 -> generate_apache_access_log(d)
      [] k = 2 -> generate_apache_error_log(d)
      [] k = 3 -> generate_firewall_log(d)
      [] k = 4 -> generate_windows_log(d)

\* the kind of the with-block main is in
current == Len(opened)

\* a variant: open(name, "a"), which keeps what the destination holds
open_a(file) == [exists |-> TRUE, data |-> file.data]

\* open(name, "w", encoding="utf-8"): the destination is created or truncated
open_w(file) == [exists |-> TRUE, data |-> <<>>]

\* f.write(s)
write(file, s) == [file EXCEPT !.data = Append(@, s)]

\* what a destination holds after a failed write or flush: some of the
\* strings written, in order
after_failure(file) ==
    { [file EXCEPT !.data = SubSeq(@, 1, n)] : n \in 0..Len(file.data) }

\* a variant: the exception is caught and main goes on with the next block
Fatal_caught(e) ==
    /\ pc' = IF (IF pc = "open" THEN Len(opened) + 1 ELSE Len(opened))
                  < Len(DESTINATIONS)
             THEN "open" ELSE "print"
    /\ ret' = e

\* the state main is left in by an exception
Fatal(e) == pc' = "failed" /\ ret' = e

Open ==
    /\ pc = "open"
    /\ opened' = Append(opened, Len(opened) + 1)
    /\ fs' = [fs EXCEPT ![Len(opened) + 1] = open_w(@)]
    /\ pending' = 0
    /\ pc' = "loop"
    /\ UNCHANGED <<op, rnd, ret, num, printed>>

OpenFails ==
    /\ pc = "open"
    /\ opened' = Append(opened, Len(opened) + 1)
    /\ Fatal(Raise("OSError"))
    /\ UNCHANGED <<op, rnd, num, fs, pending, printed>>

Write ==
    /\ pc = "loop"
    /\ pending < num[current]
    /\ \E d \in MainDraws : \E line \in {generate(current, d)} :
        IF line.exc # ""
        THEN Fatal(line) /\ UNCHANGED <<fs, pending>>
        ELSE /\ fs' = [fs EXCEPT ![current] = write(@, line.val \o <<"\n">>)]
             /\ pending' = pending + 1
             /\ UNCHANGED <<pc, ret>>
    /\ UNCHANGED <<op, rnd, num, opened, printed>>

WriteFails ==
    /\ pc = "loop"
    /\ pending < num[current]
    /\ \E file \in after_failure(fs[current]) : fs' = [fs EXCEPT ![current] = file]
    /\ Fatal(Raise("OSError"))
    /\ UNCHANGED <<op, rnd, num, opened, pending, printed>>

Close ==
    /\ pc = "loop"
    /\ pending = num[current]
    /\ pc' = IF current < Len(DESTINATIONS) THEN "open" ELSE "print"
    /\ UNCHANGED <<op, rnd, ret, num, fs, opened, pending, printed>>

CloseFails ==
    /\ pc = "loop"
    /\ pending = num[current]
    /\ \E file \in after_failure(fs[current]) : fs' = [fs EXCEPT ![current] = file]
    /\ Fatal(Raise("OSError"))
    /\ UNCHANGED <<op, rnd, num, opened, pending, printed>>

PrintSuccess ==
    /\ pc = "print"
    /\ printed' = TRUE
    /\ pc' = "done"
    /\ UNCHANGED <<op, rnd, ret, num, fs, opened, pending>>

InitMain ==
    /\ op = "main"
    /\ rnd = BaseDraws
    /\ ret = OK(<<>>)
    /\ pc = "open"
    /\ num \in [Kinds -> 0..MaxCount]
    /\ fs \in PRIOR_FS
    /\ opened = <<>>
    /\ pending = 0
    /\ printed = FALSE

NextMain ==
    \/ Open
    \/ OpenFails
    \/ Write
    \/ WriteFails
    \/ Close
    \/ CloseFails
    \/ PrintSuccess

SpecMain == InitMain /\ [][NextMain]_vars

---------------------------------------------------------------------------
(* Reading lines back: the fields of a rendered line and the grammars of   *)
(* the four kinds.  A position is an index into the line; 0 means that the *)
(* line did not match so far.                                              *)

Chars(s) == {s[i] : i \in DOMAIN s}
Upper == Chars(<<"A", "B", "C", "D", "E", "F", "G", "H", "I", "J", "K", "L", "M", "N", "O", "P", "Q", "R", "S", "T", "U", "V", "W", "X", "Y", "Z">>)
Lower == Chars(<<"a", "b", "c", "d", "e", "f", "g", "h", "i", "j", "k", "l", "m", "n", "o", "p", "q", "r", "s", "t", "u", "v", "w", "x", "y", "z">>)
Letters == Upper \cup Lower
PathChars == Letters \cup Digits \cup {"/", ".", "_", "-"}
WordsChars == Letters \cup {" "}

\* the text of s between the first `open` and the next `close`; <<>> if none
between(s, open, close) ==
    LET i == find(s, 1, open)
        j == IF i = 0 THEN 0 ELSE find(s, i + Len(open), close)
    IN  IF j = 0 THEN <<>> ELSE SubSeq(s, i + Len(open), j - 1)

\* the position after the literal t at i
lit(s, i, t) == IF i > 0 /\ at(s, i, t) THEN i + Len(t) ELSE 0

\* the least member of a non-empty set of positions
least(S) == CHOOSE j \in S : \A k \in S : j <= k

\* the position after the longest run at i of characters of the class
run_in(s, i, class) ==
    least({j \in i..(Len(s) + 1) : j = Len(s) + 1 \/ s[j] \notin class})

\* the position after the longest run at i of characters other than c
run_not(s, i, c) ==
    least({j \in i..(Len(s) + 1) : j = Len(s) + 1 \/ s[j] = c})

\* one or more characters of the class
many(s, i, class) ==
    IF i = 0 THEN 0
    ELSE LET j == run_in(s, i, class)
         IN  IF j > i THEN j ELSE 0

\* one or more characters other than the quote
unquoted(s, i) ==
    IF i = 0 THEN 0
    ELSE LET j == run_not(s, i, "\"")
         IN  IF j > i THEN j ELSE 0

\* exactly n characters of the class
exactly(s, i, n, class) ==
    IF i > 0 /\ i + n - 1 <= Len(s) /\ \A k \in i..(i + n - 1) : s[k] \in class
    THEN i + n ELSE 0

\* words up to (not including) the next occurrence of t
words_until(s, i, t) ==
    IF i = 0 THEN 0
    ELSE LET j == find(s, i, t)
         IN  IF j > i /\ \A k \in i..(j - 1) : s[k] \in WordsChars THEN j ELSE 0

\* <int>.<int>.<int>.<int>
m_ip(s, i) ==
    LET p1 == lit(s, many(s, i, Digits), <<".">>)
        p2 == lit(s, many(s, p1, Digits), <<".">>)
        p3 == lit(s, many(s, p2, Digits), <<".">>)
    IN  many(s, p3, Digits)

\* HH:MM:SS
m_clock(s, i) ==
    LET p1 == lit(s, exactly(s, i, 2, Digits), <<":">>)
        p2 == lit(s, exactly(s, p1, 2, Digits), <<":">>)
    IN  exactly(s, p2, 2, Digits)

\* Mon, Dow: a capital and two small letters
m_name(s, i) == exactly(s, exactly(s, i, 1, Upper), 2, Lower)

\* geo_country="<country>" geo_city="<city>" and the end of the line
m_geo_end(s, i) ==
    LET p1 == unquoted(s, lit(s, i, <<"g", "e", "o", "_", "c", "o", "u", "n", "t", "r", "y", "=", "\"">>))
        p2 == unquoted(s, lit(s, p1, <<"\"", " ", "g", "e", "o", "_", "c", "i", "t", "y", "=", "\"">>))
        p3 == lit(s, p2, <<"\"">>)
    IN  p3 > 0 /\ p3 = Len(s) + 1

\* <ip> - - [<day>/<Mon>/<year>:<HH:MM:SS> +0000] "<METHOD> <path> HTTP/1.1"
\* <status> <size> geo_country="<country>" geo_city="<city>"
is_access_line(s) ==
    LET p1 == lit(s, m_ip(s, 1), <<" ", "-", " ", "-", " ", "[">>)
        p2 == lit(s, exactly(s, p1, 2, Digits), <<"/">>)
        p3 == lit(s, m_name(s, p2), <<"/">>)
        p4 == lit(s, exactly(s, p3, 4, Digits), <<":">>)
        p5 == lit(s, m_clock(s, p4), <<" ", "+", "0", "0", "0", "0", "]", " ", "\"">>)
        p6 == lit(s, many(s, p5, Upper), <<" ">>)
        p7 == lit(s, many(s, p6, PathChars), <<" ", "H", "T", "T", "P", "/", "1", ".", "1", "\"", " ">>)
        p8 == lit(s, many(s, p7, Digits), <<" ">>)
        p9 == lit(s, many(s, p8, Digits), <<" ">>)
    IN  m_geo_end(s, p9)

\* [<Dow> <Mon> <day> <HH:MM:SS> <year>] [<SEVERITY>] [client <ip>] <message>
\* geo_country="<country>" geo_city="<city>"
is_error_line(s) ==
    LET p1 == lit(s, m_name(s, lit(s, 1, <<"[">>)), <<" ">>)
        p2 == lit(s, m_name(s, p1), <<" ">>)
        p3 == lit(s, exactly(s, p2, 2, Digits), <<" ">>)
        p4 == lit(s, m_clock(s, p3), <<" ">>)
        p5 == lit(s, exactly(s, p4, 4, Digits), <<"]", " ", "[">>)
        p6 == lit(s, many(s, p5, Upper), <<"]", " ", "[", "c", "l", "i", "e", "n", "t", " ">>)
        p7 == lit(s, m_ip(s, p6), <<"]", " ">>)
        p8 == lit(s, words_until(s, p7, <<" ", "g", "e", "o", "_", "c", "o", "u", "n", "t", "r", "y", "=">>), <<" ">>)
    IN  m_geo_end(s, p8)

\* <Mon> <day> <HH:MM:SS> myfirewall CEF:0|FakeCompany|Firewall|1.0|100|
\* Traffic|INFO| src=<ip> act=<ACTION> geo_country="<country>" geo_city="<city>"
is_firewall_line(s) ==
    LET p1 == lit(s, m_name(s, 1), <<" ">>)
        p2 == lit(s, exactly(s, p1, 2, Digits), <<" ">>)
        p3 == lit(s, m_clock(s, p2),
                  <<" ", "m", "y", "f", "i", "r", "e", "w", "a", "l", "l", " ", "C", "E", "F", ":", "0", "|", "F", "a", "k", "e", "C", "o", "m", "p", "a", "n", "y", "|", "F", "i", "r", "e", "w", "a", "l", "l", "|", "1", ".", "0", "|", "1", "0", "0", "|", "T", "r", "a", "f", "f", "i", "c", "|", "I", "N", "F", "O", "|", " ", "s", "r", "c", "=">>)
        p4 == lit(s, m_ip(s, p3), <<" ", "a", "c", "t", "=">>)
        p5 == lit(s, many(s, p4, Upper), <<" ">>)
    IN  m_geo_end(s, p5)

\* <year>-<MM>-<DD> <HH:MM:SS> WINHOST Security ID=<code> MSG="<message>"
\* [client <ip>] username="<user>" geo_country="<country>" geo_city="<city>"
is_windows_line(s) ==
    LET p1 == lit(s, exactly(s, 1, 4, Digits), <<"-">>)
        p2 == lit(s, exactly(s, p1, 2, Digits), <<"-">>)
        p3 == lit(s, exactly(s, p2, 2, Digits), <<" ">>)
        p4 == lit(s, m_clock(s, p3), <<" ", "W", "I", "N", "H", "O", "S", "T", " ", "S", "e", "c", "u", "r", "i", "t", "y", " ", "I", "D", "=">>)
        p5 == lit(s, many(s, p4, Digits), <<" ", "M", "S", "G", "=", "\"">>)
        p6 == lit(s, unquoted(s, p5), <<"\"", " ", "[", "c", "l", "i", "e", "n", "t", " ">>)
        p7 == lit(s, m_ip(s, p6), <<"]", " ", "u", "s", "e", "r", "n", "a", "m", "e", "=", "\"">>)
        p8 == lit(s, unquoted(s, p7), <<"\"", " ">>)
    IN  m_geo_end(s, p8)

\* whether s is four dot-separated integers, each in lo..hi
is_dotted_quad(s, lo, hi) ==
    LET parts == split(s, <<".">>)
    IN  /\ Len(parts) = 4
        /\ \A i \in 1..4 : is_int(parts[i]) /\ int(parts[i]) \in lo..hi

\* the states after a call that returned a line, and the line
LineOps == {"generate_apache_access_log", "generate_apache_error_log",
            "generate_firewall_log", "generate_windows_log"}
ReturnedLine == op \in LineOps /\ ret.exc = ""
Line == ret.val

\* the address of the line: its first token (access), src= (firewall) or
\* [client <ip>] (error, windows)
LineAddress ==
    CASE op = "generate_apache_access_log" -> split(Line, <<" ">>)[1]
      [] op = "generate_firewall_log" -> between(Line, <<" ", "s", "r", "c", "=">>, <<" ">>)
      [] OTHER -> between(Line, <<"[", "c", "l", "i", "e", "n", "t", " ">>, <<"]">>)

\* the states in which an address was returned, and the address
ReturnedAddress == ReturnedLine \/ (op = "get_random_ip" /\ ret.exc = "")
Address == IF op = "get_random_ip" THEN ret.val ELSE LineAddress

\* the fields of an access line
AccessStatus == split(Line, <<" ">>)[9]

\* the fields of a windows line
WindowsId == between(Line, <<" ", "I", "D", "=">>, <<" ">>)
WindowsMsg == between(Line, <<" ", "M", "S", "G", "=", "\"">>, <<"\"">>)

\* the geo tags of a line
GeoCountry == between(Line, <<" ", "g", "e", "o", "_", "c", "o", "u", "n", "t", "r", "y", "=", "\"">>, <<"\"">>)
GeoCity == between(Line, <<" ", "g", "e", "o", "_", "c", "i", "t", "y", "=", "\"">>, <<"\"">>)

\* the number of lines of a destination: its newline characters
text_of(file) == join(<<>>, file.data)
newlines(text) == Cardinality({i \in DOMAIN text : text[i] = "\n"})
terminated(text) == Len(text) = 0 \/ text[Len(text)] = "\n"

---------------------------------------------------------------------------
(* The properties *)

\* the die of the status draw, and the status the weights give it
Die == 1 + (rnd.dice % 100)
Fallback == <<302, 401, 403, 501>>
Weighted ==
    IF Die <= 80 THEN 200
    ELSE IF Die <= 90 THEN 404
    ELSE IF Die <= 95 THEN 500
    ELSE Fallback[1 + (rnd.other % 4)]

AccessLine == op = "generate_apache_access_log" /\ ret.exc = ""
WindowsLine == op = "generate_windows_log" /\ ret.exc = ""

\* C1, as claimed: every address returned, on every path (frequent pool,
\* synthesized, incident address in access and Windows lines), is four
\* dot-separated integers each in [1,254].
C1_OctetsFrom1To254 ==
    ReturnedAddress => is_dotted_quad(Address, 1, 254)

\* C1, amended: every address returned, on every path, is four dot-separated
\* integers each in [0,254], and each in [1,254] unless the address is the
\* frequent-pool member 10.0.0.5.
C1_OctetsFrom0To254 ==
    ReturnedAddress =>
        /\ is_dotted_quad(Address, 0, 254)
        /\ Address # <<"1", "0", ".", "0", ".", "0", ".", "5">> => is_dotted_quad(Address, 1, 254)

C1_Witness ==
    /\ op = "generate_windows_log"
    /\ ret.exc = ""
    /\ Address = <<"1", "0", ".", "0", ".", "0", ".", "5">>

\* C2: every timestamp get_random_datetime returns is not earlier than
\* now - DAYS_BACK days and not later than now, the clock value read in the
\* call.
C2_WithinWindow ==
    (op = "get_random_datetime" /\ ret.exc = "") =>
        /\ datetime_le(datetime_add(rnd.now, timedelta(-DAYS_BACK, 0)), ret.val)
        /\ datetime_le(ret.val, rnd.now)

\* C3: after a run of main that completes, every destination exists and holds
\* exactly the configured count of lines, each ended by a newline, with
\* nothing of what it held before; a count of 0 leaves it existing and empty.
C3_DestinationsComplete ==
    pc = "done" =>
        \A k \in Kinds :
            /\ fs[k].exists
            /\ Len(fs[k].data) = num[k]
            /\ \A i \in DOMAIN fs[k].data :
                   newlines(fs[k].data[i]) = 1 /\ terminated(fs[k].data[i])
            /\ newlines(text_of(fs[k])) = num[k]
            /\ find(text_of(fs[k]), 1, <<"s", "t", "a", "l", "e", " ", "e", "n", "t", "r", "y">>) = 0
            /\ num[k] = 0 => text_of(fs[k]) = <<>>

C3_Witness ==
    /\ pc = "done"
    /\ num[1] = 2
    /\ num[2] = 0
    /\ newlines(text_of(fs[1])) = 2
    /\ is_access_line(SubSeq(fs[1].data[2], 1, Len(fs[1].data[2]) - 1))

\* the run of main ended by an exception
MainFailed == op = "main" /\ ret.exc # ""

\* C4: once a destination could not be opened or written the run is over: the
\* destinations were opened in the fixed order and none after the failing
\* one, the success message is not printed, every destination before the
\* failing one keeps its full content, and no step follows.
C4_FailureIsFatal ==
    /\ [](MainFailed =>
            /\ \A i \in DOMAIN opened : opened[i] = i
            /\ ~printed
            /\ \A k \in Kinds :
                /\ k < Len(opened) =>
                     fs[k].exists /\ newlines(text_of(fs[k])) = num[k]
                /\ k > Len(opened) => fs[k] \in {NoFile, StaleFile})
    /\ [][~MainFailed]_vars

C4_Witness ==
    /\ MainFailed
    /\ Len(opened) = 3
    /\ num[1] = 2
    /\ newlines(text_of(fs[1])) = 2
    /\ fs[4] = StaleFile

\* C5: the die values 1..80 give status 200, 81..90 give 404, 91..95 give
\* 500 and 96..100 give the member of {302, 401, 403, 501} the fallback draw
\* picks; so 80, 10, 5 and 5 of the 100 die values; the status of a line is
\* always one of the seven.
C5_StatusWeights ==
    /\ AccessLine =>
        /\ is_int(AccessStatus)
        /\ int(AccessStatus) \in {200, 404, 500, 302, 401, 403, 501}
        /\ Address # INCIDENT_IP => int(AccessStatus) = Weighted
    /\ \A c \in {200, 404, 500} :
        Cardinality({u \in 0..99 :
            status_draw([BaseDraws EXCEPT !.dice = u]) = OK(c)})
          = (CASE c = 200 -> 80 [] c = 404 -> 10 [] c = 500 -> 5)
    /\ \A o \in 0..3 :
        {u \in 0..99 : status_draw([BaseDraws EXCEPT !.dice = u, !.other = o])
                         = OK(Fallback[o + 1])} = 95..99

C5_Witness ==
    /\ AccessLine
    /\ Die = 96
    /\ Address # INCIDENT_IP
    /\ AccessStatus = <<"5", "0", "1">>

MessageOf(id) ==
    CASE id = <<"4", "6", "2", "4">> -> <<"A", "n", " ", "a", "c", "c", "o", "u", "n", "t", " ", "w", "a", "s", " ", "s", "u", "c", "c", "e", "s", "s", "f", "u", "l", "l", "y", " ", "l", "o", "g", "g", "e", "d", " ", "o", "n">>
      [] id = <<"4", "6", "2", "5">> -> <<"A", "n", " ", "a", "c", "c", "o", "u", "n", "t", " ", "f", "a", "i", "l", "e", "d", " ", "t", "o", " ", "l", "o", "g", " ", "o", "n">>
      [] id = <<"4", "6", "3", "4">> -> <<"A", "n", " ", "a", "c", "c", "o", "u", "n", "t", " ", "w", "a", "s", " ", "l", "o", "g", "g", "e", "d", " ", "o", "f", "f">>
      [] id = <<"4", "6", "7", "2">> -> <<"S", "p", "e", "c", "i", "a", "l", " ", "p", "r", "i", "v", "i", "l", "e", "g", "e", "s", " ", "a", "s", "s", "i", "g", "n", "e", "d", " ", "t", "o", " ", "n", "e", "w", " ", "l", "o", "g", "o", "n">>
      [] OTHER -> <<>>

\* C7: the message of a Windows line is the one message of the line's event
\* code, whatever the address, username and location; code 4625 always has
\* "An account failed to log on".
C7_MessageOfCode ==
    WindowsLine =>
        /\ WindowsId \in {<<"4", "6", "2", "4">>, <<"4", "6", "2", "5">>, <<"4", "6", "3", "4">>, <<"4", "6", "7", "2">>}
        /\ WindowsMsg = MessageOf(WindowsId)

C7_Witness ==
    /\ WindowsLine
    /\ WindowsId = <<"4", "6", "2", "5">>
    /\ WindowsMsg = <<"A", "n", " ", "a", "c", "c", "o", "u", "n", "t", " ", "f", "a", "i", "l", "e", "d", " ", "t", "o", " ", "l", "o", "g", " ", "o", "n">>
    /\ Address = INCIDENT_IP
    /\ between(Line, <<" ", "u", "s", "e", "r", "n", "a", "m", "e", "=", "\"">>, <<"\"">>) = <<"a", ".", "g", "a", "r", "c", "i", "a">>

\* C8: joining the country and the city of a line's geo tags as "X, Y" gives
\* back the location that was drawn, which is one entry of the list only;
\* every entry holds the separator once.
C8_GeoRoundTrip ==
    /\ op \in LineOps =>
        /\ ret.exc = ""
        /\ LET entry == GeoCountry \o <<",", " ">> \o GeoCity
               drawn == 1 + (rnd.loc % Len(GEOGRAPHIC_LOCATIONS))
           IN  {i \in DOMAIN GEOGRAPHIC_LOCATIONS : GEOGRAPHIC_LOCATIONS[i] = entry}
                 = {drawn}
    /\ \A i \in DOMAIN GEOGRAPHIC_LOCATIONS :
        Len(split(GEOGRAPHIC_LOCATIONS[i], <<",", " ">>)) = 2

C8_Witness ==
    /\ op = "generate_firewall_log"
    /\ ret.exc = ""
    /\ GeoCountry = <<"B", "r", "a", "z", "i", "l">>
    /\ GeoCity = <<"S", "Ã", "£", "o", " ", "P", "a", "u", "l", "o">>

\* C9: no call raises: every function returns, the status of an access line
\* is a number (never None), every categorical draw is over a non-empty
\* list, every event code has its message and every location splits in two.
C9_NoException ==
    /\ op # "none" => ret.exc = ""
    /\ AccessLine => is_int(AccessStatus)
    /\ \A list \in {HIGH_FREQ_IPS, GEOGRAPHIC_LOCATIONS, HTTP_METHODS, ENDPOINTS,
                    ERROR_SEVERITIES, ERROR_MESSAGES, FIREWALL_ACTIONS,
                    FAKE_USERNAMES} : Len(list) > 0
    /\ Len(OTHER_CODES) > 0 /\ Len(WINDOWS_EVENT_IDS) > 0
    /\ \A i \in DOMAIN WINDOWS_EVENT_IDS :
        lookup_message(WINDOWS_EVENT_IDS[i]).exc = ""
    /\ \A i \in DOMAIN GEOGRAPHIC_LOCATIONS :
        unpack_location(GEOGRAPHIC_LOCATIONS[i]).exc = ""

C9_Witness ==
    /\ WindowsLine
    /\ WindowsId = <<"4", "6", "7", "2">>
    /\ Address = INCIDENT_IP
    /\ WindowsMsg = <<"S", "p", "e", "c", "i", "a", "l", " ", "p", "r", "i", "v", "i", "l", "e", "g", "e", "s", " ", "a", "s", "s", "i", "g", "n", "e", "d", " ", "t", "o", " ", "n", "e", "w", " ", "l", "o", "g", "o", "n">>

\* C10: the incident draw comes first (when it hits, the address is the
\* incident address); an access line whose address is not the incident
\* address has the status of the weighted draw, and one whose address is the
\* incident address has 404 or the status of the weighted draw.
C10_OverrideOnlyIncident ==
    AccessLine =>
        /\ rnd.incident * 100 < 15 * Res => Address = INCIDENT_IP
        /\ Address # INCIDENT_IP => int(AccessStatus) = Weighted
        /\ Address = INCIDENT_IP => int(AccessStatus) \in {404, Weighted}

C10_Witness ==
    /\ AccessLine
    /\ Address = INCIDENT_IP
    /\ ~(rnd.incident * 100 < 15 * Res)
    /\ Weighted = 200
    /\ AccessStatus = <<"4", "0", "4">>

====
